---- MODULE Spec2Model ----
(***************************************************************************)
(* ccgen: a header descriptor (Header, Func, Macro, Type, HeaderGuard,     *)
(* CXX) and the tokenizer that renders it to the text of a C header        *)
(* (src/src/lib.rs, src/src/tok.rs).                                       *)
(*                                                                         *)
(* Text is a sequence of characters, each a one-character string, so that  *)
(* characters can be counted and compared.  An Option is a sequence of     *)
(* length at most one: <<>> is None and <<x>> is Some(x).  Wide integers   *)
(* are little-endian sequences of bytes, so that 64-bit values keep their  *)
(* width.                                                                  *)
(***************************************************************************)
EXTENDS Integers, Sequences, FiniteSets, TLC

VARIABLES
  mem,      \* the caller's storage: address -> the slice stored there
  header,   \* the Header the caller holds
  func,     \* the Func the caller holds
  guard,    \* the HeaderGuard the caller holds
  cxx,      \* the CXX mode the caller holds
  num,      \* the integer the caller holds: its type and its bytes
  out,      \* the String returned by the last token()/end_token() call
  trace,    \* the pushes onto `out` made by that call, in order
  ret,      \* the slice returned by the last accessor call
  op        \* the last operation called

vars == <<mem, header, func, guard, cxx, num, out, trace, ret, op>>

----------------------------------------------------------------------------
(* String literals of the source, as character sequences.                  *)

\* tok.rs:176  "#ifdef __cplusplus\n#error \"This header can only be used by C\"\n#endif\n"
CXX_C_OPEN ==
  <<"#", "i", "f", "d", "e", "f", " ", "_", "_", "c", "p", "l", "u", "s",
    "p", "l", "u", "s", "\n", "#", "e", "r", "r", "o", "r", " ", "\"", "T",
    "h", "i", "s", " ", "h", "e", "a", "d", "e", "r", " ", "c", "a", "n",
    " ", "o", "n", "l", "y", " ", "b", "e", " ", "u", "s", "e", "d", " ",
    "b", "y", " ", "C", "\"", "\n", "#", "e", "n", "d", "i", "f", "\n">>

\* tok.rs:179  "#ifdef __cplusplus\nextern \"C\" {\n#endif\n"
CXX_CXX_OPEN ==
  <<"#", "i", "f", "d", "e", "f", " ", "_", "_", "c", "p", "l", "u", "s",
    "p", "l", "u", "s", "\n", "e", "x", "t", "e", "r", "n", " ", "\"", "C",
    "\"", " ", "{", "\n", "#", "e", "n", "d", "i", "f", "\n">>

\* tok.rs:182  "#ifndef __cplusplus\n#error \"This header can only be used by C++\"\n#endif\n"
CXX_CXXONLY_OPEN ==
  <<"#", "i", "f", "n", "d", "e", "f", " ", "_", "_", "c", "p", "l", "u",
    "s", "p", "l", "u", "s", "\n", "#", "e", "r", "r", "o", "r", " ", "\"",
    "T", "h", "i", "s", " ", "h", "e", "a", "d", "e", "r", " ", "c", "a",
    "n", " ", "o", "n", "l", "y", " ", "b", "e", " ", "u", "s", "e", "d",
    " ", "b", "y", " ", "C", "+", "+", "\"", "\n", "#", "e", "n", "d", "i",
    "f", "\n">>

\* tok.rs:194  "#ifdef __cplusplus\n}\n#endif\n"
CXX_CXX_CLOSE ==
  <<"#", "i", "f", "d", "e", "f", " ", "_", "_", "c", "p", "l", "u", "s",
    "p", "l", "u", "s", "\n", "}", "\n", "#", "e", "n", "d", "i", "f", "\n">>

\* "#ifndef "
GUARD_IFNDEF ==
  <<"#", "i", "f", "n", "d", "e", "f", " ">>

\* "\n#define "
GUARD_DEFINE ==
  <<"\n", "#", "d", "e", "f", "i", "n", "e", " ">>

\* "#endif\n"
GUARD_ENDIF ==
  <<"#", "e", "n", "d", "i", "f", "\n">>

\* "#define "
MACRO_DEFINE ==
  <<"#", "d", "e", "f", "i", "n", "e", " ">>

\* "typedef "
TYPE_TYPEDEF ==
  <<"t", "y", "p", "e", "d", "e", "f", " ">>

\* "int"
S_int ==
  <<"i", "n", "t">>

\* "void"
S_void ==
  <<"v", "o", "i", "d">>

\* "printf"
S_printf ==
  <<"p", "r", "i", "n", "t", "f">>

\* "const char*"
S_const_char_p ==
  <<"c", "o", "n", "s", "t", " ", "c", "h", "a", "r", "*">>

\* "size_t"
S_size_t ==
  <<"s", "i", "z", "e", "_", "t">>

\* "unsigned long"
S_unsigned_long ==
  <<"u", "n", "s", "i", "g", "n", "e", "d", " ", "l", "o", "n", "g">>

\* "test.h"
S_test_h ==
  <<"t", "e", "s", "t", ".", "h">>


\* "q"
S_q == <<"q">>

\* "a"
S_a == <<"a">>

\* "b"
S_b == <<"b">>

\* "H"
S_H == <<"H">>

\* "1"
S_1 == <<"1">>

\* "x"
S_x == <<"x">>

\* "y"
S_y == <<"y">>

NL == "\n"

----------------------------------------------------------------------------
(* Bounds of the model.                                                    *)

\* the most elements the three sequences of a Header hold together
MaxDecls == 3

\* the most parameters of a Func built from the parameter alphabet
MaxParams == 3

----------------------------------------------------------------------------
(* Options, storage and the descriptor types (lib.rs).                     *)

None == <<>>

Some(x) == <<x>>

IsSome(o) == o # None

Unwrap(o) == o[1]

\* the null address: the value #[derive(Default)] gives a usize pointer field
NullAddr == 0

\* where the caller's slices live; every one of them is a non-null address
ParamsAddr == NullAddr + 1

FuncsAddr == NullAddr + 2

MacrosAddr == NullAddr + 3

TypesAddr == NullAddr + 4

\* two parameter slices with static lifetime, used by the functions a Header
\* lists: &["const char*"] and &[]
PrintfParamsAddr == NullAddr + 5

EmptyParamsAddr == NullAddr + 6

Addrs ==
  {ParamsAddr, FuncsAddr, MacrosAddr, TypesAddr, PrintfParamsAddr,
   EmptyParamsAddr}

\* slice.as_ptr() as usize: the address the slice is stored at
AsPtr(addr) == addr

\* core::slice::from_raw_parts(ptr as *const T, len) on a pointer that
\* satisfies its safety contract: the first len elements stored at ptr
FromRawParts(m, ptr, len) == SubSeq(m[ptr], 1, len)

\* Type::new
TypeNew(name, type) == [name |-> name, type |-> type]

\* Macro::new
MacroNew(tok, val) == [tok |-> tok, val |-> val]

\* HeaderGuard::new
HeaderGuardNew(tok, val) == [tok |-> tok, val |-> val]

\* Func::new, with params stored at address paddr
FuncNew(fout, name, paddr, params, va) ==
  LET params_ptr == AsPtr(paddr)
  IN  [out |-> fout, name |-> name, va |-> va, params_ptr |-> params_ptr,
       num_params |-> Len(params)]

\* #[derive(Default)] for Func
FuncDefault ==
  [out |-> <<>>, name |-> <<>>, va |-> "Nary", params_ptr |-> NullAddr,
   num_params |-> 0]

\* Func::params on a Func whose pointer is valid
FuncParams(f, m) == FromRawParts(m, f.params_ptr, f.num_params)

\* Header::new; funcs, macros and types are stored at faddr, maddr and taddr
HeaderNew(path, name, g, faddr, funcs, maddr, macros, taddr, types, c, extra, post_extra) ==
  LET funcs_ptr == AsPtr(faddr)
      macros_ptr == AsPtr(maddr)
      types_ptr == AsPtr(taddr)
  IN  [path |-> path, name |-> name, guard |-> g, funcs_ptr |-> funcs_ptr,
       macros_ptr |-> macros_ptr, types_ptr |-> types_ptr, extra |-> extra,
       post_extra |-> post_extra, cxx |-> c, num_funcs |-> Len(funcs),
       num_types |-> Len(types), num_macros |-> Len(macros)]

\* #[derive(Default)] for Header; CXX::CXX is the #[default] variant
HeaderDefault ==
  [path |-> None, name |-> <<>>, guard |-> None, funcs_ptr |-> NullAddr,
   macros_ptr |-> NullAddr, types_ptr |-> NullAddr, extra |-> None,
   post_extra |-> None, cxx |-> "CXX", num_funcs |-> 0, num_types |-> 0,
   num_macros |-> 0]

\* Header::funcs, Header::macros, Header::types on valid pointers
HeaderFuncs(h, m) == FromRawParts(m, h.funcs_ptr, h.num_funcs)

HeaderMacros(h, m) == FromRawParts(m, h.macros_ptr, h.num_macros)

HeaderTypes(h, m) == FromRawParts(m, h.types_ptr, h.num_types)

----------------------------------------------------------------------------
(* The tokenizer (tok.rs).  A token() call builds its String by pushes;    *)
(* the pushes are kept as fragments [kind, idx, text] and the String is    *)
(* their concatenation.                                                    *)

\* out.push_str(s), noted as a fragment of the given kind (idx: loop index)
PushStr(frags, kind, idx, s) ==
  Append(frags, [kind |-> kind, idx |-> idx, text |-> s])

\* out.push(c)
Push(frags, kind, c) ==
  Append(frags, [kind |-> kind, idx |-> 0, text |-> <<c>>])

RECURSIVE Flatten(_)
Flatten(frags) ==
  IF frags = <<>> THEN <<>> ELSE Head(frags).text \o Flatten(Tail(frags))

\* impl Token for CXX
CXXToken(c) ==
  CASE c = "C" -> CXX_C_OPEN
    [] c = "CXX" -> CXX_CXX_OPEN
    [] c = "CXXOnly" -> CXX_CXXONLY_OPEN

\* a CXX whose closing block was forgotten
CXXEndToken_NoClose(c) == <<>>

\* impl EndToken for CXX
CXXEndToken(c) ==
  CASE c = "CXX" -> CXX_CXX_CLOSE
    [] OTHER -> <<>>

\* a guard that drops the space after the token when the value is empty
HeaderGuardToken_Slip(g) ==
  GUARD_IFNDEF \o g.tok \o GUARD_DEFINE \o g.tok
    \o (IF g.val = <<>> THEN <<>> ELSE <<" ">>) \o g.val \o <<NL>>

\* impl Token for HeaderGuard
HeaderGuardToken(g) ==
  GUARD_IFNDEF \o g.tok \o GUARD_DEFINE \o g.tok \o <<" ">> \o g.val
    \o <<NL>>

\* impl EndToken for HeaderGuard
HeaderGuardEndToken(g) == GUARD_ENDIF

\* impl Token for Macro
MacroToken(mc) == MACRO_DEFINE \o mc.tok \o <<" ">> \o mc.val \o <<NL>>

\* impl Token for Type
TypeToken(t) == TYPE_TYPEDEF \o t.type \o <<" ">> \o t.name \o <<";", NL>>

\* impl Token for Func: for i in 0..self.num_params { ... }
RECURSIVE ParamsLoop(_, _, _, _)
ParamsLoop(frags, f, m, i) ==
  IF i >= f.num_params
  THEN frags
  ELSE ParamsLoop(
         PushStr(IF i # 0 THEN PushStr(frags, "sep", i, <<",", " ">>)
                          ELSE frags,
                 "param", i, FuncParams(f, m)[i + 1]),
         f, m, i + 1)

\* a variadic tail that always writes the comma
VariadicTail_AlwaysComma(frags, f) ==
  IF f.va = "Variadic"
  THEN PushStr(frags, "ellipsis", 0, <<",", " ", ".", ".", ".">>)
  ELSE frags

\* impl Token for Func: if let Variadic::Variadic = self.va { ... }
VariadicTail(frags, f) ==
  IF f.va = "Variadic"
  THEN IF f.num_params = 0
       THEN PushStr(frags, "ellipsis", 0, <<".", ".", ".">>)
       ELSE PushStr(frags, "ellipsis", 0, <<",", " ", ".", ".", ".">>)
  ELSE frags

\* impl Token for Func: the pushes of token()
FuncTokenFrags(f, m) ==
  LET s0 == PushStr(<<>>, "out", 0, f.out)
      s1 == Push(s0, "space", " ")
      s2 == PushStr(s1, "name", 0, f.name)
      s3 == Push(s2, "open", "(")
      s4 == ParamsLoop(s3, f, m, 0)
      s5 == VariadicTail(s4, f)
  IN  PushStr(s5, "close", 0, <<")", ";", NL>>)

\* impl Token for Func
FuncToken(f, m) == Flatten(FuncTokenFrags(f, m))

\* impl Token for Header: if let Some(guard) = &self.guard { ... }
GuardOpenSection(frags, h) ==
  IF IsSome(h.guard)
  THEN Push(PushStr(frags, "guard.token", 0,
                    HeaderGuardToken(Unwrap(h.guard))), "nl", NL)
  ELSE frags

\* impl Token for Header: the dialect opening and its newline
CXXOpenSection(frags, h) ==
  Push(PushStr(frags, "cxx.token", 0, CXXToken(h.cxx)), "nl", NL)

\* a typedef loop that walks the sequence from its end
RECURSIVE TypesLoop_Reversed(_, _, _, _)
TypesLoop_Reversed(frags, h, m, i) ==
  IF i >= h.num_types
  THEN frags
  ELSE TypesLoop_Reversed(
         PushStr(frags, "type", i,
                 TypeToken(HeaderTypes(h, m)[h.num_types - i])),
         h, m, i + 1)

\* impl Token for Header: for i in 0..self.num_types { ... }
RECURSIVE TypesLoop(_, _, _, _)
TypesLoop(frags, h, m, i) ==
  IF i >= h.num_types
  THEN frags
  ELSE TypesLoop(PushStr(frags, "type", i, TypeToken(HeaderTypes(h, m)[i + 1])),
                 h, m, i + 1)

\* a typedef section that writes no newline after an empty sequence
TypesSection_NoNlWhenEmpty(frags, h, m) ==
  IF h.num_types = 0
  THEN frags
  ELSE Push(TypesLoop(frags, h, m, 0), "nl", NL)

\* impl Token for Header: the typedef loop and its newline
TypesSection(frags, h, m) == Push(TypesLoop(frags, h, m, 0), "nl", NL)

\* impl Token for Header: for i in 0..self.num_macros { ... }
RECURSIVE MacrosLoop(_, _, _, _)
MacrosLoop(frags, h, m, i) ==
  IF i >= h.num_macros
  THEN frags
  ELSE MacrosLoop(
         PushStr(frags, "macro", i, MacroToken(HeaderMacros(h, m)[i + 1])),
         h, m, i + 1)

\* impl Token for Header: the macro loop and its newline
MacrosSection(frags, h, m) == Push(MacrosLoop(frags, h, m, 0), "nl", NL)

\* impl Token for Header: for i in 0..self.num_funcs { ... }
RECURSIVE FuncsLoop(_, _, _, _)
FuncsLoop(frags, h, m, i) ==
  IF i >= h.num_funcs
  THEN frags
  ELSE FuncsLoop(
         PushStr(frags, "func", i, FuncToken(HeaderFuncs(h, m)[i + 1], m)),
         h, m, i + 1)

\* impl Token for Header: the function loop and its newline
FuncsSection(frags, h, m) == Push(FuncsLoop(frags, h, m, 0), "nl", NL)

\* impl Token for Header: if let Some(extra) = self.extra { ... }
ExtraSection(frags, h) ==
  IF IsSome(h.extra)
  THEN Push(PushStr(frags, "extra", 0, Unwrap(h.extra)), "nl", NL)
  ELSE frags

\* a dialect close that writes no newline after an empty close fragment
CXXCloseSection_NoNlWhenEmpty(frags, h) ==
  IF CXXEndToken(h.cxx) = <<>>
  THEN PushStr(frags, "cxx.end_token", 0, CXXEndToken(h.cxx))
  ELSE Push(PushStr(frags, "cxx.end_token", 0, CXXEndToken(h.cxx)), "nl", NL)

\* impl Token for Header: the dialect close and its newline
CXXCloseSection(frags, h) ==
  Push(PushStr(frags, "cxx.end_token", 0, CXXEndToken(h.cxx)), "nl", NL)

\* impl Token for Header: if let Some(guard) = &self.guard { ... } (close)
GuardCloseSection(frags, h) ==
  IF IsSome(h.guard)
  THEN Push(PushStr(frags, "guard.end_token", 0,
                    HeaderGuardEndToken(Unwrap(h.guard))), "nl", NL)
  ELSE frags

\* impl Token for Header: if let Some(post_extra) = &self.post_extra { ... }
PostExtraSection(frags, h) ==
  IF IsSome(h.post_extra)
  THEN Push(PushStr(frags, "post_extra", 0, Unwrap(h.post_extra)), "nl", NL)
  ELSE frags

\* a closing sequence that ends the guard before the trailing block only
\* after writing that block
HeaderTail_PostExtraInsideGuard(frags, h) ==
  GuardCloseSection(PostExtraSection(CXXCloseSection(frags, h), h), h)

\* impl Token for Header: dialect close, guard close, trailing block
HeaderTail(frags, h) ==
  PostExtraSection(GuardCloseSection(CXXCloseSection(frags, h), h), h)

\* impl Token for Header: the pushes of token()
HeaderTokenFrags(h, m) ==
  LET s1 == GuardOpenSection(<<>>, h)
      s2 == CXXOpenSection(s1, h)
      s3 == TypesSection(s2, h, m)
      s4 == MacrosSection(s3, h, m)
      s5 == FuncsSection(s4, h, m)
      s6 == ExtraSection(s5, h)
  IN  HeaderTail(s6, h)

----------------------------------------------------------------------------
(* Integer literals (tok.rs, impl Token for u64 ... usize).  A value is    *)
(* its little-endian bytes; core::fmt's Display and LowerHex are modelled  *)
(* by what they compute: repeated division by ten, and the nibbles from    *)
(* the most significant one down.                                          *)

IntTypes == {"u64", "u32", "u16", "u8", "i64", "i32", "i16", "i8", "usize"}

\* the size of each type in bytes (usize on a 64-bit target)
SizeOf(ty) ==
  CASE ty \in {"u64", "i64", "usize"} -> 8
    [] ty \in {"u32", "i32"} -> 4
    [] ty \in {"u16", "i16"} -> 2
    [] ty \in {"u8", "i8"} -> 1

IsSignedType(ty) == ty \in {"i64", "i32", "i16", "i8"}

DigitChars == <<"0", "1", "2", "3", "4", "5", "6", "7", "8", "9", "a", "b", "c", "d", "e", "f">>

IsZero(bytes) == \A i \in 1..Len(bytes) : bytes[i] = 0

\* the sign bit of a two's complement value
IsNegative(bytes) == bytes[Len(bytes)] >= 128

\* bytes divided by ten, from the most significant byte down, carrying the
\* remainder r: <<quotient bytes, remainder>>
RECURSIVE DivMod10(_, _, _)
DivMod10(bytes, i, r) ==
  IF i = 0
  THEN <<bytes, r>>
  ELSE LET cur == r * 256 + bytes[i]
       IN  DivMod10([bytes EXCEPT ![i] = cur \div 10], i - 1, cur % 10)

\* the decimal digits of an unsigned value, most significant first
RECURSIVE DecimalDigits(_)
DecimalDigits(bytes) ==
  IF IsZero(bytes)
  THEN <<>>
  ELSE LET qr == DivMod10(bytes, Len(bytes), 0)
       IN  Append(DecimalDigits(qr[1]), DigitChars[qr[2] + 1])

\* Display for an unsigned integer
FmtUnsigned(bytes) ==
  IF IsZero(bytes) THEN <<"0">> ELSE DecimalDigits(bytes)

\* (!x).wrapping_add(1): the magnitude of a negative two's complement value
RECURSIVE WrappingNeg(_, _, _)
WrappingNeg(bytes, i, carry) ==
  IF i > Len(bytes)
  THEN bytes
  ELSE LET cur == (255 - bytes[i]) + carry
       IN  WrappingNeg([bytes EXCEPT ![i] = cur % 256], i + 1, cur \div 256)

\* a Display for signed integers that prints the bit pattern as unsigned
FmtSigned_AsUnsigned(bytes) == FmtUnsigned(bytes)

\* Display for a signed integer
FmtSigned(bytes) ==
  IF IsNegative(bytes)
  THEN <<"-">> \o FmtUnsigned(WrappingNeg(bytes, 1, 1))
  ELSE FmtUnsigned(bytes)

\* the hexadecimal digits below nibble position k (two per byte), leading
\* zeros skipped while `leading` holds
RECURSIVE HexDigits(_, _, _)
HexDigits(bytes, k, leading) ==
  IF k = 0
  THEN <<>>
  ELSE LET b == bytes[(k + 1) \div 2]
           nib == IF k % 2 = 0 THEN b \div 16 ELSE b % 16
       IN  IF leading /\ nib = 0
           THEN HexDigits(bytes, k - 1, TRUE)
           ELSE <<DigitChars[nib + 1]>> \o HexDigits(bytes, k - 1, FALSE)

\* LowerHex ({:x}) for an unsigned integer
FmtLowerHex(bytes) ==
  IF IsZero(bytes) THEN <<"0">> ELSE HexDigits(bytes, 2 * Len(bytes), TRUE)

\* impl Token for u64, u32, u16, u8, i64, i32, i16, i8, usize
NumToken(n) ==
  CASE n.ty = "u64" -> FmtUnsigned(n.bytes) \o <<"U", "L">>
    [] n.ty \in {"u32", "u16", "u8"} -> FmtUnsigned(n.bytes)
    [] n.ty = "i64" -> FmtSigned(n.bytes) \o <<"L">>
    [] n.ty \in {"i32", "i16", "i8"} -> FmtSigned(n.bytes)
    [] n.ty = "usize" -> <<"0", "x">> \o FmtLowerHex(n.bytes) \o <<"U", "L">>

----------------------------------------------------------------------------
(* The values callers pass in.                                             *)

SeqsUpTo(S, n) == UNION {[1..k -> S] : k \in 0..n}

TypePool == {TypeNew(S_size_t, S_unsigned_long), TypeNew(S_a, S_int)}

MacroPool == {MacroNew(S_H, S_1), MacroNew(S_a, <<>>)}

\* Func::new("int", "printf", &["const char*"], Variadic::Variadic)
F_printf == FuncNew(S_int, S_printf, PrintfParamsAddr, <<S_const_char_p>>, "Variadic")

\* Func::new("void", "q", &[], Variadic::Nary)
F_q == FuncNew(S_void, S_q, EmptyParamsAddr, <<>>, "Nary")

FuncPool == {F_printf, F_q}

GuardOpts == {None, Some(HeaderGuardNew(S_a, S_1))}

CXXModes == {"C", "CXX", "CXXOnly"}

\* <<extra, post_extra>>: each absent, present and empty, present with text
ExtraPairs ==
  {<<None, None>>, <<Some(S_x), Some(S_y)>>, <<Some(<<>>), None>>,
   <<None, Some(<<>>)>>}

\* parameter spellings; one of them holds the separator's own characters
ParamPool == {S_a, S_const_char_p, <<"i", "n", "t", ",", " ", "b">>}

\* the 26 one-letter parameters of the test in tok.rs
Alphabet26 ==
  << <<"a">>, <<"b">>, <<"c">>, <<"d">>, <<"e">>, <<"f">>, <<"g">>, <<"h">>,
     <<"i">>, <<"j">>, <<"k">>, <<"l">>, <<"m">>, <<"n">>, <<"o">>, <<"p">>,
     <<"q">>, <<"r">>, <<"s">>, <<"t">>, <<"u">>, <<"v">>, <<"w">>, <<"x">>,
     <<"y">>, <<"z">> >>

ParamLists == SeqsUpTo(ParamPool, MaxParams) \cup {Alphabet26}

GuardToks == {S_a, S_b, S_H, <<>>}

GuardVals == {<<>>, S_1, S_x, <<"1", " ", "2">>}

\* bytes at the edges of the digit counts and of the sign
EdgeBytes == {0, 1, 9, 10, 12, 99, 100, 127, 128, 171, 205, 255}

\* values of n bytes: any low byte, any high byte, the bytes between all
\* zeros or all ones; and every value of one byte
EdgeValues(n) ==
  IF n = 1
  THEN {<<b>> : b \in 0..255}
  ELSE {[i \in 1..n |-> IF i = 1 THEN lo ELSE IF i = n THEN hi ELSE mid] :
          lo \in EdgeBytes, hi \in {0, 1, 127, 128, 255}, mid \in {0, 255}}

\* 0x1234abcd and 12 as in the test in tok.rs, and powers of ten
TestValues(n) ==
  IF n = 8
  THEN {<<205, 171, 52, 18, 0, 0, 0, 0>>, <<0, 202, 154, 59, 0, 0, 0, 0>>,
        <<0, 0, 100, 167, 179, 182, 224, 13>>}
  ELSE IF n = 4 THEN {<<205, 171, 52, 18>>, <<0, 202, 154, 59>>}
  ELSE IF n = 2 THEN {<<16, 39>>, <<232, 3>>}
  ELSE {}

NumValues(ty) == EdgeValues(SizeOf(ty)) \cup TestValues(SizeOf(ty))

\* the result of no accessor call
NoRet == [kind |-> "none", data |-> NullAddr, len |-> 0, elems |-> <<>>]

\* what a call of core::slice::from_raw_parts(ptr, len) can do: on a null
\* pointer its safety contract is broken (undefined behaviour), and a build
\* either aborts on the precondition check or hands back a slice whose data
\* pointer is null
RawPartsOutcomes(m, ptr, len) ==
  IF ptr = NullAddr
  THEN {[kind |-> "abort", data |-> ptr, len |-> len, elems |-> <<>>],
        [kind |-> "slice", data |-> ptr, len |-> len, elems |-> <<>>]}
  ELSE {[kind |-> "slice", data |-> ptr, len |-> len,
         elems |-> FromRawParts(m, ptr, len)]}

StaticMem ==
  [a \in Addrs |-> IF a = PrintfParamsAddr THEN <<S_const_char_p>> ELSE <<>>]

----------------------------------------------------------------------------
(* The state machine: one action per call of the public API.  A Header, a  *)
(* Func and an integer are built once (op = "init") and only read after;   *)
(* nothing is read before the caller has built or picked a value.          *)

Init ==
  /\ mem = StaticMem
  /\ header = HeaderDefault
  /\ func = FuncDefault
  /\ guard = HeaderGuardNew(<<>>, <<>>)
  /\ cxx = "CXX"
  /\ num = [ty |-> "u8", bytes |-> <<0>>]
  /\ out = <<>>
  /\ trace = <<>>
  /\ ret = NoRet
  /\ op = "init"

NoResult == out' = <<>> /\ trace' = <<>> /\ ret' = NoRet

\* Header::new(path, name, guard, funcs, macros, types, cxx, extra, post_extra)
DoHeaderNew ==
  \E g \in GuardOpts, c \in CXXModes, ep \in ExtraPairs,
     ts \in SeqsUpTo(TypePool, MaxDecls) :
    \E ms \in SeqsUpTo(MacroPool, MaxDecls - Len(ts)) :
      \E fs \in SeqsUpTo(FuncPool, MaxDecls - Len(ts) - Len(ms)) :
        /\ op = "init"
        /\ mem' = [mem EXCEPT ![FuncsAddr] = fs, ![MacrosAddr] = ms,
                              ![TypesAddr] = ts]
        /\ header' = HeaderNew(None, S_test_h, g, FuncsAddr, fs, MacrosAddr,
                               ms, TypesAddr, ts, c, ep[1], ep[2])
        /\ op' = "Header::new"
        /\ NoResult
        /\ UNCHANGED <<func, guard, cxx, num>>

\* Header::default()
DoHeaderDefault ==
  /\ op = "init"
  /\ header' = HeaderDefault
  /\ op' = "Header::default"
  /\ NoResult
  /\ UNCHANGED <<mem, func, guard, cxx, num>>

\* #[derive(Clone, Copy)]: the caller goes on with a copy of its Header
DoHeaderCopy ==
  /\ op # "init"
  /\ header' = header
  /\ op' = "Header::clone"
  /\ NoResult
  /\ UNCHANGED <<mem, func, guard, cxx, num>>

\* header.token()
DoHeaderToken ==
  /\ op # "init"
  /\ trace' = HeaderTokenFrags(header, mem)
  /\ out' = Flatten(trace')
  /\ ret' = NoRet
  /\ op' = "Header::token"
  /\ UNCHANGED <<mem, header, func, guard, cxx, num>>

\* header.funcs()
DoHeaderFuncs ==
  /\ op # "init"
  /\ ret' \in RawPartsOutcomes(mem, header.funcs_ptr, header.num_funcs)
  /\ op' = "Header::funcs"
  /\ out' = <<>>
  /\ trace' = <<>>
  /\ UNCHANGED <<mem, header, func, guard, cxx, num>>

\* header.macros()
DoHeaderMacros ==
  /\ op # "init"
  /\ ret' \in RawPartsOutcomes(mem, header.macros_ptr, header.num_macros)
  /\ op' = "Header::macros"
  /\ out' = <<>>
  /\ trace' = <<>>
  /\ UNCHANGED <<mem, header, func, guard, cxx, num>>

\* header.types()
DoHeaderTypes ==
  /\ op # "init"
  /\ ret' \in RawPartsOutcomes(mem, header.types_ptr, header.num_types)
  /\ op' = "Header::types"
  /\ out' = <<>>
  /\ trace' = <<>>
  /\ UNCHANGED <<mem, header, func, guard, cxx, num>>

\* Func::new(out, name, params, va)
DoFuncNew ==
  \E fo \in {S_int, S_void}, fname \in {S_q, S_printf}, ps \in ParamLists,
     va \in {"Nary", "Variadic"} :
    /\ op = "init"
    /\ mem' = [mem EXCEPT ![ParamsAddr] = ps]
    /\ func' = FuncNew(fo, fname, ParamsAddr, ps, va)
    /\ op' = "Func::new"
    /\ NoResult
    /\ UNCHANGED <<header, guard, cxx, num>>

\* Func::default()
DoFuncDefault ==
  /\ op = "init"
  /\ func' = FuncDefault
  /\ op' = "Func::default"
  /\ NoResult
  /\ UNCHANGED <<mem, header, guard, cxx, num>>

\* func.token()
DoFuncToken ==
  /\ op # "init"
  /\ trace' = FuncTokenFrags(func, mem)
  /\ out' = Flatten(trace')
  /\ ret' = NoRet
  /\ op' = "Func::token"
  /\ UNCHANGED <<mem, header, func, guard, cxx, num>>

\* func.params()
DoFuncParams ==
  /\ op # "init"
  /\ ret' \in RawPartsOutcomes(mem, func.params_ptr, func.num_params)
  /\ op' = "Func::params"
  /\ out' = <<>>
  /\ trace' = <<>>
  /\ UNCHANGED <<mem, header, func, guard, cxx, num>>

\* HeaderGuard::new(tok, val)
DoGuardNew ==
  \E t \in GuardToks, v \in GuardVals :
    /\ guard' = HeaderGuardNew(t, v)
    /\ op' = "HeaderGuard::new"
    /\ NoResult
    /\ UNCHANGED <<mem, header, func, cxx, num>>

\* guard.token()
DoGuardToken ==
  /\ op # "init"
  /\ out' = HeaderGuardToken(guard)
  /\ op' = "HeaderGuard::token"
  /\ trace' = <<>>
  /\ ret' = NoRet
  /\ UNCHANGED <<mem, header, func, guard, cxx, num>>

\* guard.end_token()
DoGuardEndToken ==
  /\ op # "init"
  /\ out' = HeaderGuardEndToken(guard)
  /\ op' = "HeaderGuard::end_token"
  /\ trace' = <<>>
  /\ ret' = NoRet
  /\ UNCHANGED <<mem, header, func, guard, cxx, num>>

\* the caller picks a CXX variant
DoCXXPick ==
  \E c \in CXXModes :
    /\ cxx' = c
    /\ op' = "CXX"
    /\ NoResult
    /\ UNCHANGED <<mem, header, func, guard, num>>

\* cxx.token()
DoCXXToken ==
  /\ op # "init"
  /\ out' = CXXToken(cxx)
  /\ op' = "CXX::token"
  /\ trace' = <<>>
  /\ ret' = NoRet
  /\ UNCHANGED <<mem, header, func, guard, cxx, num>>

\* cxx.end_token()
DoCXXEndToken ==
  /\ op # "init"
  /\ out' = CXXEndToken(cxx)
  /\ op' = "CXX::end_token"
  /\ trace' = <<>>
  /\ ret' = NoRet
  /\ UNCHANGED <<mem, header, func, guard, cxx, num>>

\* the caller picks an integer of one of the types
DoNumPick ==
  \E ty \in IntTypes :
    \E bytes \in NumValues(ty) :
      /\ op = "init"
      /\ num' = [ty |-> ty, bytes |-> bytes]
      /\ op' = "num"
      /\ NoResult
      /\ UNCHANGED <<mem, header, func, guard, cxx>>

\* num.token()
DoNumToken ==
  /\ op # "init"
  /\ out' = NumToken(num)
  /\ op' = "num::token"
  /\ trace' = <<>>
  /\ ret' = NoRet
  /\ UNCHANGED <<mem, header, func, guard, cxx, num>>

\* the Header and its accessors and renderer
Next ==
  \/ DoHeaderNew
  \/ DoHeaderDefault
  \/ DoHeaderCopy
  \/ DoHeaderToken
  \/ DoHeaderFuncs
  \/ DoHeaderMacros
  \/ DoHeaderTypes

Spec == Init /\ [][Next]_vars

\* a Func, its accessor and its renderer
NextFunc ==
  \/ DoFuncNew
  \/ DoFuncDefault
  \/ DoFuncToken
  \/ DoFuncParams

SpecFunc == Init /\ [][NextFunc]_vars

\* the two wrappers: HeaderGuard and CXX
NextWrap ==
  \/ DoGuardNew
  \/ DoGuardToken
  \/ DoGuardEndToken
  \/ DoCXXPick
  \/ DoCXXToken
  \/ DoCXXEndToken

SpecWrap == Init /\ [][NextWrap]_vars

\* the integer literals
NextNum ==
  \/ DoNumPick
  \/ DoNumToken

SpecNum == Init /\ [][NextNum]_vars

----------------------------------------------------------------------------
(* Vocabulary of the properties.                                           *)

RECURSIVE ConcatAll(_)
ConcatAll(texts) ==
  IF texts = <<>> THEN <<>> ELSE Head(texts) \o ConcatAll(Tail(texts))

RECURSIVE JoinWith(_, _)
JoinWith(texts, sep) ==
  IF texts = <<>> THEN <<>>
  ELSE IF Len(texts) = 1 THEN texts[1]
  ELSE texts[1] \o sep \o JoinWith(Tail(texts), sep)

CountChar(text, c) == Cardinality({i \in 1..Len(text) : text[i] = c})

CountSub(text, pat) ==
  Cardinality({i \in 1..(Len(text) - Len(pat) + 1) :
                 SubSeq(text, i, i + Len(pat) - 1) = pat})

\* the positions of the fragments of a kind in the last render
At(kind) == {i \in 1..Len(trace) : trace[i].kind = kind}

\* the texts of the fragments of a kind, in the order they were pushed
TextsOf(kind) ==
  LET sel == SelectSeq(trace, LAMBDA fr : fr.kind = kind)
  IN  [i \in 1..Len(sel) |-> sel[i].text]

\* the sequences the caller supplied at construction (none for a default)
SuppliedTypes == mem[TypesAddr]

SuppliedMacros == mem[MacrosAddr]

SuppliedFuncs == mem[FuncsAddr]

SuppliedParams == mem[ParamsAddr]

TypeFragments == [i \in 1..Len(SuppliedTypes) |-> TypeToken(SuppliedTypes[i])]

MacroFragments ==
  [i \in 1..Len(SuppliedMacros) |-> MacroToken(SuppliedMacros[i])]

FuncFragments ==
  [i \in 1..Len(SuppliedFuncs) |-> FuncToken(SuppliedFuncs[i], mem)]

B2N(b) == IF b THEN 1 ELSE 0

Rendered == op = "Header::token"

----------------------------------------------------------------------------
(* The Header assembler.                                                   *)

\* C1: the text of header.token() is, in this order and with nothing else:
\* [guard.token() + "\n" if a guard is configured] + cxx.token() + "\n" +
\* all typedef fragments + "\n" + all macro fragments + "\n" + all function
\* fragments + "\n" + [extra + "\n" if present] + cxx.end_token() + "\n" +
\* [guard.end_token() + "\n" if a guard is configured] +
\* [post_extra + "\n" if present].
C1_HeaderConcatenation ==
  Rendered =>
    out = (IF IsSome(header.guard)
           THEN HeaderGuardToken(Unwrap(header.guard)) \o <<NL>>
           ELSE <<>>)
          \o CXXToken(header.cxx) \o <<NL>>
          \o ConcatAll(TypeFragments) \o <<NL>>
          \o ConcatAll(MacroFragments) \o <<NL>>
          \o ConcatAll(FuncFragments) \o <<NL>>
          \o (IF IsSome(header.extra)
              THEN Unwrap(header.extra) \o <<NL>>
              ELSE <<>>)
          \o CXXEndToken(header.cxx) \o <<NL>>
          \o (IF IsSome(header.guard)
              THEN HeaderGuardEndToken(Unwrap(header.guard)) \o <<NL>>
              ELSE <<>>)
          \o (IF IsSome(header.post_extra)
              THEN Unwrap(header.post_extra) \o <<NL>>
              ELSE <<>>)

\* a render of a header with a guard, both extra blocks and all three
\* sequences non-empty
C1_Witness ==
  /\ Rendered
  /\ IsSome(header.guard) /\ IsSome(header.extra) /\ IsSome(header.post_extra)
  /\ header.num_types > 0 /\ header.num_macros > 0 /\ header.num_funcs > 0

\* the separator newlines the claim counts
SeparatorCount ==
  5 + 2 * B2N(IsSome(header.guard)) + B2N(IsSome(header.extra))
    + B2N(IsSome(header.post_extra))

\* the newline characters inside the fragments that are not separators
ContentNewlines ==
  CountChar(ConcatAll([i \in 1..Len(trace) |->
                         IF trace[i].kind = "nl" THEN <<>> ELSE trace[i].text]),
            NL)

\* C2: the separator newlines of header.token() do not depend on the content
\* of the sections: each of the typedef, macro and function sections and the
\* dialect close is followed by one "\n" even when it is empty, the number
\* of separators is 5 + 2 (guard) + 1 (extra) + 1 (post_extra), and a header
\* with no guard, no extras and three empty sequences renders as
\* cxx.token() + "\n\n\n\n" + cxx.end_token() + "\n".
C2_SeparatorsIndependent ==
  Rendered =>
    /\ Cardinality(At("nl")) = SeparatorCount
    /\ \A i \in At("nl") : trace[i].text = <<NL>>
    /\ CountChar(out, NL) = SeparatorCount + ContentNewlines
    /\ \A k \in {"type", "macro", "func", "cxx.end_token"} :
         \A i \in At(k) :
           trace[i + 1].kind \in {k, "nl"}
    /\ \A i \in At("cxx.end_token") : trace[i + 1].kind = "nl"
    /\ (/\ header.guard = None /\ header.extra = None
        /\ header.post_extra = None
        /\ header.num_types = 0 /\ header.num_macros = 0
        /\ header.num_funcs = 0)
       => out = CXXToken(header.cxx) \o <<NL, NL, NL, NL>>
                  \o CXXEndToken(header.cxx) \o <<NL>>

\* a render of a header with no guard, no extras, three empty sequences and
\* an empty dialect close
C2_Witness ==
  /\ Rendered
  /\ header.guard = None /\ header.extra = None /\ header.post_extra = None
  /\ header.num_types = 0 /\ header.num_macros = 0 /\ header.num_funcs = 0
  /\ header.cxx = "C"
  /\ CXXEndToken(header.cxx) = <<>>

Before(I, J) == \A i \in I : \A j \in J : i < j

\* C3: in the fragments of header.token(), guard open (if configured) is the
\* first fragment; dialect open comes after it and before every typedef,
\* macro and function fragment and the leading extra block; dialect close
\* comes after all of those; guard close comes after dialect close; the
\* trailing post_extra block comes after guard close.  Guard open and guard
\* close are both emitted or both absent; dialect open and dialect close are
\* each emitted exactly once.
C3_Nesting ==
  Rendered =>
    LET inner == At("type") \cup At("macro") \cup At("func") \cup At("extra")
    IN  /\ Cardinality(At("cxx.token")) = 1
        /\ Cardinality(At("cxx.end_token")) = 1
        /\ Cardinality(At("guard.token")) = B2N(IsSome(header.guard))
        /\ Cardinality(At("guard.end_token")) = B2N(IsSome(header.guard))
        /\ Cardinality(At("extra")) = B2N(IsSome(header.extra))
        /\ Cardinality(At("post_extra")) = B2N(IsSome(header.post_extra))
        /\ IsSome(header.guard) => trace[1].kind = "guard.token"
        /\ Before(At("guard.token"), At("cxx.token"))
        /\ Before(At("cxx.token"), inner)
        /\ Before(inner, At("cxx.end_token"))
        /\ Before(At("cxx.token"), At("cxx.end_token"))
        /\ Before(At("cxx.end_token"), At("guard.end_token"))
        /\ Before(At("guard.end_token"), At("post_extra"))
        /\ Before(At("cxx.end_token"), At("post_extra"))

\* a render with a guard, a trailing block, a leading block and declarations
C3_Witness ==
  /\ Rendered
  /\ IsSome(header.guard) /\ IsSome(header.post_extra) /\ IsSome(header.extra)
  /\ header.num_types + header.num_macros + header.num_funcs = MaxDecls

\* the fragments of a kind are pushed at consecutive positions
Contiguous(kind) ==
  \A i \in At(kind) : \A j \in At(kind) :
    \A k \in i..j : trace[k].kind = kind

\* the loop indices of the fragments of a kind, in push order
IndicesOf(kind) ==
  LET sel == SelectSeq(trace, LAMBDA fr : fr.kind = kind)
  IN  [i \in 1..Len(sel) |-> sel[i].idx]

\* C4: header.token() emits the fragment of every element of the typedef,
\* macro and function sequences exactly once, in the order the caller
\* supplied them (not sorted, reordered, deduplicated or skipped) and with
\* no separator between the fragments of one section; the sections come in
\* the order typedefs, macros, functions.
C4_InsertionOrder ==
  Rendered =>
    /\ TextsOf("type") = TypeFragments
    /\ TextsOf("macro") = MacroFragments
    /\ TextsOf("func") = FuncFragments
    /\ IndicesOf("type") = [i \in 1..Len(SuppliedTypes) |-> i - 1]
    /\ IndicesOf("macro") = [i \in 1..Len(SuppliedMacros) |-> i - 1]
    /\ IndicesOf("func") = [i \in 1..Len(SuppliedFuncs) |-> i - 1]
    /\ Contiguous("type") /\ Contiguous("macro") /\ Contiguous("func")
    /\ Before(At("type"), At("macro"))
    /\ Before(At("macro"), At("func"))
    /\ Before(At("type"), At("func"))

\* a render of a header whose typedefs are two different ones, the caller's
\* first one not the alphabetically first, followed by a macro
C4_Witness ==
  /\ Rendered
  /\ header.num_types = 2
  /\ SuppliedTypes[1] = TypeNew(S_size_t, S_unsigned_long)
  /\ SuppliedTypes[2] = TypeNew(S_a, S_int)
  /\ header.num_macros = 1

\* C6: dialect wrapping is balanced for every mode.  CXX::CXX opens with
\* "#ifdef __cplusplus\nextern \"C\" {\n#endif\n" and closes with
\* "#ifdef __cplusplus\n}\n#endif\n", each brace occurring exactly once;
\* CXX::C and CXX::CXXOnly open with a self-contained #ifdef/#ifndef ...
\* #error ... #endif block and close with the empty string.  In any
\* assembled header the dialect fragments hold as many "{" as "}" and as
\* many #if-openers as "#endif" lines.
C6_DialectBalanced ==
  Rendered =>
    \A i \in At("cxx.token") : \A j \in At("cxx.end_token") :
      LET open == trace[i].text
          close == trace[j].text
          both == open \o close
          IfOpen == <<"#", "i", "f">>
          EndIf == <<"#", "e", "n", "d", "i", "f", NL>>
          Error == <<NL, "#", "e", "r", "r", "o", "r", " ">>
      IN  /\ CountChar(both, "{") = CountChar(both, "}")
          /\ CountSub(both, IfOpen) = CountSub(both, EndIf)
          /\ header.cxx = "CXX" =>
               /\ open = CXX_CXX_OPEN /\ close = CXX_CXX_CLOSE
               /\ CountChar(open, "{") = 1 /\ CountChar(open, "}") = 0
               /\ CountChar(close, "}") = 1 /\ CountChar(close, "{") = 0
          /\ header.cxx # "CXX" =>
               /\ close = <<>>
               /\ open = (IF header.cxx = "C" THEN CXX_C_OPEN
                                              ELSE CXX_CXXONLY_OPEN)
               /\ SubSeq(open, 1, 3) = IfOpen
               /\ CountSub(open, IfOpen) = 1
               /\ CountSub(open, Error) = 1
               /\ SubSeq(open, Len(open) - 6, Len(open)) = EndIf
               /\ CountChar(open, "{") = 0

\* a render of a C-and-C++ header that declares a function
C6_Witness ==
  /\ Rendered
  /\ header.cxx = "CXX"
  /\ header.num_funcs > 0
  /\ CountChar(out, "{") = 1

----------------------------------------------------------------------------
(* Func.                                                                   *)

FuncRendered == op = "Func::token"

\* the text of a Func as the claim spells it
FuncExpected ==
  func.out \o <<" ">> \o func.name \o <<"(">>
    \o JoinWith(SuppliedParams, <<",", " ">>)
    \o (IF func.va = "Nary" THEN <<>>
        ELSE IF SuppliedParams = <<>> THEN <<".", ".", ".">>
        ELSE <<",", " ", ".", ".", ".">>)
    \o <<")", ";", NL>>

\* the parts of C5 that do not count separators: the text, a comma before
\* the ellipsis exactly when there is a parameter, no ellipsis for a fixed
\* function
FuncTextAndTail ==
  /\ out = FuncExpected
  /\ TextsOf("param") = SuppliedParams
  /\ Cardinality(At("ellipsis")) = B2N(func.va = "Variadic")
  /\ \A i \in At("ellipsis") :
       /\ trace[i].text = (IF func.num_params = 0 THEN <<>> ELSE <<",", " ">>)
                            \o <<".", ".", ".">>
       /\ trace[i + 1].kind = "close"
  /\ func.va = "Nary" => trace[Len(trace) - 1].kind \in {"param", "open"}

\* C5 as stated: token() = out + " " + name + "(" + params joined by ", " +
\* tail + ");\n" with tail "" (Nary), "..." (Variadic, no parameters) or
\* ", ..." (Variadic, parameters), and exactly len(params) - 1 separators
\* ", " are emitted between parameters for any parameter count, 0 included.
C5_Original ==
  FuncRendered =>
    /\ FuncTextAndTail
    /\ Cardinality(At("sep")) = Len(SuppliedParams) - 1

\* C5, amended: the same text and tail, and the ", " separators emitted
\* between parameters are len(params) - 1 for a non-empty parameter list and
\* none for an empty one, each right before a parameter other than the first.
C5_FuncToken ==
  FuncRendered =>
    /\ FuncTextAndTail
    /\ Cardinality(At("sep")) =
         (IF Len(SuppliedParams) = 0 THEN 0 ELSE Len(SuppliedParams) - 1)
    /\ \A i \in At("sep") :
         /\ trace[i].text = <<",", " ">>
         /\ trace[i - 1].kind = "param"
         /\ trace[i + 1].kind = "param"

\* renders of a variadic function with no parameter: the tie-break case
C5_Witness ==
  /\ FuncRendered
  /\ func.va = "Variadic"
  /\ func.num_params = 0
  /\ out = func.out \o <<" ">> \o func.name \o <<"(", ".", ".", ".", ")", ";", NL>>

----------------------------------------------------------------------------
(* HeaderGuard.                                                            *)

\* C7: for every HeaderGuard(tok, val), an empty val included, token() =
\* "#ifndef " + tok + "\n#define " + tok + " " + val + "\n": the same tok in
\* both lines, one space before val even when val is empty, one trailing
\* newline; and end_token() = "#endif\n" whatever tok and val are.
C7_HeaderGuard ==
  /\ op = "HeaderGuard::token" =>
       /\ out = <<"#", "i", "f", "n", "d", "e", "f", " ">> \o guard.tok
                  \o <<NL, "#", "d", "e", "f", "i", "n", "e", " ">>
                  \o guard.tok \o <<" ">> \o guard.val \o <<NL>>
       /\ CountChar(out, NL) = 2
       /\ out[Len(out) - Len(guard.val) - 1] = " "
  /\ op = "HeaderGuard::end_token" =>
       out = <<"#", "e", "n", "d", "i", "f", NL>>

\* a render of a guard whose value is empty
C7_Witness ==
  /\ op = "HeaderGuard::token"
  /\ guard.val = <<>>
  /\ guard.tok = S_a
  /\ out[Len(out) - 1] = " "

----------------------------------------------------------------------------
(* Integer literals.  A numeral is read back into a natural number kept as *)
(* little-endian bytes of any length, and compared with the value.         *)

\* nat * k + c, for a natural number given as little-endian bytes
RECURSIVE MulAdd(_, _, _)
MulAdd(nat, k, c) ==
  IF nat = <<>>
  THEN IF c = 0 THEN <<>> ELSE <<c % 256>> \o MulAdd(<<>>, k, c \div 256)
  ELSE LET cur == Head(nat) * k + c
       IN  <<cur % 256>> \o MulAdd(Tail(nat), k, cur \div 256)

DigitValue(ch) == CHOOSE d \in 0..15 : DigitChars[d + 1] = ch

\* the natural number a numeral spells in the given base
RECURSIVE ParseNumeral(_, _, _)
ParseNumeral(digits, base, acc) ==
  IF digits = <<>>
  THEN acc
  ELSE ParseNumeral(Tail(digits), base,
                    MulAdd(acc, base, DigitValue(Head(digits))))

\* a natural number without its high zero bytes
RECURSIVE Normalize(_)
Normalize(nat) ==
  IF nat # <<>> /\ nat[Len(nat)] = 0
  THEN Normalize(SubSeq(nat, 1, Len(nat) - 1))
  ELSE nat

\* digits of the base only, at least one, no leading zero unless it is "0"
IsNumeral(digits, base) ==
  /\ Len(digits) >= 1
  /\ \A i \in 1..Len(digits) :
       \E d \in 0..(base - 1) : DigitChars[d + 1] = digits[i]
  /\ Len(digits) > 1 => digits[1] # "0"

\* x + y, byte by byte, for two sequences of the same length: <<sum, carry>>
RECURSIVE AddBytes(_, _, _, _)
AddBytes(x, y, i, carry) ==
  IF i > Len(x)
  THEN <<x, carry>>
  ELSE LET cur == x[i] + y[i] + carry
       IN  AddBytes([x EXCEPT ![i] = cur % 256], y, i + 1, cur \div 256)

\* magnitude is the absolute value of the negative two's complement value:
\* it fits the width, and magnitude + value = 2^width
IsMagnitudeOf(magnitude, bytes) ==
  LET n == Len(bytes)
      mag == Normalize(magnitude)
      padded == [i \in 1..n |-> IF i <= Len(mag) THEN mag[i] ELSE 0]
  IN  /\ Len(mag) <= n
      /\ mag # <<>>
      /\ AddBytes(padded, bytes, 1, 0) = <<[i \in 1..n |-> 0], 1>>

NumRendered == op = "num::token"

\* C9: the integer formatter follows the table for every value of each type,
\* 0 and the minimum and maximum included: u64 is its decimal digits + "UL";
\* i64 its decimal digits, a leading "-" if negative, + "L"; u32/u16/u8
\* decimal digits; i32/i16/i8 decimal digits with a leading "-" if negative;
\* usize "0x" + lowercase hexadecimal digits without leading zeros + "UL".
C9_IntegerLiterals ==
  NumRendered =>
    LET negative == IsSignedType(num.ty) /\ num.bytes[Len(num.bytes)] >= 128
        prefix == IF num.ty = "usize" THEN <<"0", "x">>
                  ELSE IF negative THEN <<"-">> ELSE <<>>
        suffix == IF num.ty \in {"u64", "usize"} THEN <<"U", "L">>
                  ELSE IF num.ty = "i64" THEN <<"L">> ELSE <<>>
        base == IF num.ty = "usize" THEN 16 ELSE 10
        digits == SubSeq(out, Len(prefix) + 1, Len(out) - Len(suffix))
    IN  /\ Len(out) >= Len(prefix) + Len(suffix) + 1
        /\ out = prefix \o digits \o suffix
        /\ IsNumeral(digits, base)
        /\ IF negative
           THEN IsMagnitudeOf(ParseNumeral(digits, base, <<>>), num.bytes)
           ELSE Normalize(ParseNumeral(digits, base, <<>>))
                  = Normalize(num.bytes)

\* the literal of the least i64, -9223372036854775808L
C9_Witness ==
  /\ NumRendered
  /\ num.ty = "i64"
  /\ num.bytes = <<0, 0, 0, 0, 0, 0, 0, 128>>
  /\ out = <<"-", "9", "2", "2", "3", "3", "7", "2", "0", "3", "6", "8", "5",
             "4", "7", "7", "5", "8", "0", "8", "L">>

----------------------------------------------------------------------------
(* The accessors.                                                          *)

\* C10: for every Header obtainable through Header::new, the derived Default
\* and copies, funcs(), macros() and types() return a valid sequence: its
\* length is the stored count, it is built from the non-null address of the
\* sequence supplied at construction and holds that sequence's elements in
\* order, a default-constructed Header yields empty sequences, and token()
\* reads only indices below the stored count.
C10_AccessorsValid ==
  /\ op \in {"Header::funcs", "Header::macros", "Header::types"} =>
       LET count == CASE op = "Header::funcs" -> header.num_funcs
                      [] op = "Header::macros" -> header.num_macros
                      [] op = "Header::types" -> header.num_types
           supplied == CASE op = "Header::funcs" -> SuppliedFuncs
                         [] op = "Header::macros" -> SuppliedMacros
                         [] op = "Header::types" -> SuppliedTypes
       IN  /\ ret.kind = "slice"
           /\ ret.data # NullAddr
           /\ ret.len = count
           /\ Len(supplied) = count
           /\ ret.elems = supplied
  /\ Rendered =>
       /\ \A i \in At("type") : trace[i].idx < header.num_types
       /\ \A i \in At("macro") : trace[i].idx < header.num_macros
       /\ \A i \in At("func") : trace[i].idx < header.num_funcs

============================================================================
